---- MODULE Spec2Model ----
(***************************************************************************)
(* Download orchestration of tauri-plugin-download (crate download-manager):*)
(* the JSON record store, the DownloadManager state machine and the        *)
(* streaming loop of downloader::download, for one destination path.       *)
(*                                                                         *)
(* Threads: one caller issuing Manager calls one after the other, and up   *)
(* to MaxTasks detached Downloader tasks (tokio::spawn).  Every Store      *)
(* operation is atomic (it holds the Store mutex); a step of a thread is   *)
(* at most one Store or file-system operation together with the thread-    *)
(* local code around it and the notification that follows it.              *)
(*                                                                         *)
(* Progress values are f64 in the source; here they are exact rationals    *)
(* <<numerator, denominator>> in lowest terms.                             *)
(***************************************************************************)
EXTENDS Integers, Naturals, Sequences, FiniteSets, TLC

\* ------------------------------------------------------------------ bounds
\* Number of Downloader tasks spawned in a run.
MaxTasks == 2
\* Number of Manager calls issued in a run.
MaxCalls == 4
\* Size in bytes of the resource served for the url.
ResourceSize == 100
\* Offsets in the resource at which the body is cut into chunks.
Boundaries == {1, ResourceSize \div 2}

Tasks == 1..MaxTasks
ThePath == "/tmp/file.mp4"
TheUrl == "https://example.com/file.mp4"

\* ------------------------------------------------------------ progress (f64)
RECURSIVE GCD(_, _)
GCD(a, b) == IF b = 0 THEN a ELSE GCD(b, a % b)

Ratio(n, d) == LET g == GCD(n, d) IN <<n \div g, d \div g>>

P0 == <<0, 1>>
P100 == <<100, 1>>
PROGRESS_THRESHOLD == <<1, 1>>

PLess(a, b) == a[1] * b[2] < b[1] * a[2]
PLeq(a, b) == a[1] * b[2] <= b[1] * a[2]
PSub(a, b) == Ratio(a[1] * b[2] - b[1] * a[2], a[2] * b[2])

\* downloader.rs: progress = downloaded / total_size * 100, 0 if total unknown
compute_progress(downloaded, total_size) ==
  IF total_size > 0 THEN Ratio(downloaded * 100, total_size) ELSE P0

\* downloader.rs: the throttle; TRUE when the sample is ignored
below_threshold(progress, last_emitted_progress) ==
  /\ PLess(progress, P100)
  /\ LET diff == IF PLeq(last_emitted_progress, progress)
                 THEN PSub(progress, last_emitted_progress) ELSE P0
     IN PLeq(diff, PROGRESS_THRESHOLD)

\* -------------------------------------------------------------------- models
DownloadStatus ==
  {"Unknown", "Pending", "Idle", "InProgress", "Paused", "Cancelled", "Completed"}

DownloadItem(u, p, pr, st) == [url |-> u, path |-> p, progress |-> pr, status |-> st]

\* Option::None of an Option<DownloadItem>
NoItem == DownloadItem("", "", P0, "None")

with_progress(item, new_progress) ==
  [item EXCEPT !.progress = new_progress, !.status = "InProgress"]

\* with_status keeping the progress whatever the status is
with_status_keeping(item, new_status) ==
  [item EXCEPT !.status = new_status]

with_status(item, new_status) ==
  [item EXCEPT !.progress = IF new_status = "Completed" THEN P100 ELSE item.progress,
               !.status = new_status]

\* What a Manager call returns: a DownloadActionResponse, an item, or an error.
Resp(k, d, e, f) ==
  [kind |-> k, download |-> d, expected_status |-> e, is_expected_status |-> f]

NoResp == Resp("none", NoItem, "None", FALSE)
ErrResp(e) == Resp(e, NoItem, "None", FALSE)
ItemResp(item) == Resp("item", item, "None", FALSE)

new(download) == Resp("action", download, download.status, TRUE)

\* with_expected_status reporting a mismatch whatever the status is
with_expected_status_mismatch(download, expected_status) ==
  Resp("action", download, expected_status, FALSE)

with_expected_status(download, expected_status) ==
  Resp("action", download, expected_status, download.status = expected_status)

\* --------------------------------------------------------------------- store
find_by_path(ds, path) ==
  IF \E i \in DOMAIN ds : ds[i].path = path
  THEN ds[CHOOSE i \in DOMAIN ds :
            /\ ds[i].path = path
            /\ \A j \in DOMAIN ds : ds[j].path = path => i <= j]
  ELSE NoItem

\* DownloadStore::create without its duplicate check
store_create_unchecked(ds, item) ==
  [ok |-> TRUE, downloads |-> Append(ds, item)]

\* DownloadStore::create: [ok, downloads]
store_create(ds, item) ==
  IF \E i \in DOMAIN ds : ds[i].path = item.path
  THEN [ok |-> FALSE, downloads |-> ds]
  ELSE [ok |-> TRUE, downloads |-> Append(ds, item)]

\* an update that inserts the item when the path has no record
store_update_upsert(ds, item) ==
  IF \E i \in DOMAIN ds : ds[i].path = item.path
  THEN [i \in DOMAIN ds |->
          IF /\ ds[i].path = item.path
             /\ \A j \in DOMAIN ds : ds[j].path = item.path => i <= j
          THEN item ELSE ds[i]]
  ELSE Append(ds, item)

\* DownloadStore::update: replaces the first record of that path, if any
store_update(ds, item) ==
  [i \in DOMAIN ds |->
     IF /\ ds[i].path = item.path
        /\ \A j \in DOMAIN ds : ds[j].path = item.path => i <= j
     THEN item ELSE ds[i]]

\* DownloadStore::delete
store_delete(ds, path) == SelectSeq(ds, LAMBDA i : i.path # path)

\* ---------------------------------------------------------- the backing file
\* a naming that writes InProgress under the name of Idle
camelCase_flat(status) ==
  CASE status = "Unknown" -> "unknown"
    [] status = "Pending" -> "pending"
    [] status = "Idle" -> "idle"
    [] status = "InProgress" -> "idle"
    [] status = "Paused" -> "paused"
    [] status = "Cancelled" -> "cancelled"
    [] status = "Completed" -> "completed"

\* serde, rename_all = "camelCase": the name a DownloadStatus is written as
camelCase(status) ==
  CASE status = "Unknown" -> "unknown"
    [] status = "Pending" -> "pending"
    [] status = "Idle" -> "idle"
    [] status = "InProgress" -> "inProgress"
    [] status = "Paused" -> "paused"
    [] status = "Cancelled" -> "cancelled"
    [] status = "Completed" -> "completed"

\* serde_json: the object written for an item; the f64 progress is written
\* as the shortest decimal that reads back as the same f64
to_json(item) ==
  [url |-> item.url, path |-> item.path, progress |-> item.progress,
   status |-> camelCase(item.status)]

\* serde_json: the item read from an object
from_json(object) ==
  DownloadItem(object.url, object.path, object.progress,
               CHOOSE status \in DownloadStatus : camelCase(status) = object.status)

\* serde_json::to_vec(&inner.downloads), serde_json::from_slice(&data)
to_vec(ds) == [i \in DOMAIN ds |-> to_json(ds[i])]
from_slice(data) == [i \in DOMAIN data |-> from_json(data[i])]

\* downloads.json before the first write: it does not exist
NoStoreFile == [exists |-> FALSE, data |-> <<>>]

\* save_inner: the file after the call; written tells whether the directory
\* could be created and the file written
save_inner(ds, file, written) ==
  IF written THEN [exists |-> TRUE, data |-> to_vec(ds)] ELSE file

\* DownloadStore::load into a new Store: the records it then holds
store_load(file) == IF ~file.exists THEN <<>> ELSE from_slice(file.data)

\* The error of a save_inner that could not write
WriteFailed == "Store: Failed to write store"

\* ---------------------------------------------------------------- the server
\* Offset at which the chunk that starts at pos ends.
NextBoundary(pos) ==
  LET later == {b \in Boundaries : b > pos /\ b < ResourceSize}
  IN IF later = {} THEN ResourceSize
     ELSE CHOOSE b \in later : \A c \in later : b <= c

\* --------------------------------------------------------------------- state
NoFile == -1

VARIABLES
  downloads,   \* StoreInner.downloads
  disk,        \* downloads.json as last written by save_inner
  tempFile,    \* size of ThePath + ".download", NoFile if it does not exist
  finalFile,   \* size of the file at ThePath, NoFile if it does not exist
  tasks,       \* the spawned Downloader tasks: position and locals
  call,        \* the Manager call in progress: position and the item it read
  calls,       \* number of Manager calls issued so far
  emitted,     \* item handed to on_changed by the last step (NoItem: none)
  response,    \* what the Manager call that returned in the last step returned
  held         \* history: "paused" after a pause took effect, until resume or
               \* cancel is called; "cancelled" after a cancel took effect,
               \* until create is called; "none" otherwise

vars == <<downloads, disk, tempFile, finalFile, tasks, call, calls, emitted,
          response, held>>

NoTask ==
  [pc |-> "unused", kind |-> "none", item |-> NoItem, original_item |-> NoItem,
   downloaded_size |-> 0, total_size |-> 0, downloaded |-> 0,
   last_emitted_progress |-> P0, progress |-> P0, live |-> NoItem,
   file |-> "none", result |-> "none"]

\* A task whose future has completed; r is what download returned.
Finished(r) == [NoTask EXCEPT !.pc = "done", !.result = r]

NoCall == [op |-> "idle", item |-> NoItem]

Init ==
  /\ downloads = <<>>
  /\ disk = NoStoreFile
  /\ tempFile = NoFile
  /\ finalFile = NoFile
  /\ tasks = [t \in Tasks |-> NoTask]
  /\ call = NoCall
  /\ calls = 0
  /\ emitted = NoItem
  /\ response = NoResp
  /\ held = "none"

\* The history h, ended by a call that ends the history "what"
unless(h, what) == IF h = what THEN "none" ELSE h

\* on_changed is invoked with e (NoItem: not invoked), the call returns r
\* (NoResp: no call returns), the history becomes h
Out(e, r, h) ==
  /\ emitted' = e
  /\ response' = r
  /\ held' = h

FreeTasks == {t \in Tasks : tasks[t].pc = "unused"}
FirstFree == CHOOSE t \in FreeTasks : \A u \in FreeTasks : t <= u

\* ------------------------------------------------------------------- manager
\* DownloadManager::get
get ==
  /\ call = NoCall
  /\ calls < MaxCalls
  /\ calls' = calls + 1
  /\ LET item == find_by_path(downloads, ThePath)
     IN Out(NoItem,
            ItemResp(IF item # NoItem THEN item
                     ELSE DownloadItem("", ThePath, P0, "Pending")),
            held)
  /\ UNCHANGED <<downloads, tempFile, finalFile, tasks, call>>
  /\ UNCHANGED disk

\* create replacing the record of a path that already has one
create_replacing(url) ==
  /\ call = NoCall
  /\ calls < MaxCalls
  /\ calls' = calls + 1
  /\ LET existing == find_by_path(downloads, ThePath)
         item == DownloadItem(url, ThePath, P0, "Idle")
         res == store_create(downloads, item)
     IN IF existing # NoItem
        THEN /\ downloads' = store_update(downloads, item)
             /\ disk' = save_inner(downloads', disk, TRUE)
             /\ Out(NoItem, with_expected_status(item, "Idle"),
                    unless(held, "cancelled"))
        ELSE /\ downloads' = res.downloads
             /\ disk' = IF res.ok THEN save_inner(res.downloads, disk, TRUE)
                        ELSE disk
             /\ Out(NoItem, IF res.ok THEN new(item) ELSE ErrResp("Store"),
                    unless(held, "cancelled"))
  /\ UNCHANGED <<tempFile, finalFile, tasks, call>>

\* DownloadManager::create, its arguments validated
create_valid(url) ==
  /\ call = NoCall
  /\ calls < MaxCalls
  /\ calls' = calls + 1
  /\ LET existing == find_by_path(downloads, ThePath)
         item == DownloadItem(url, ThePath, P0, "Idle")
         res == store_create(downloads, item)
     IN IF existing # NoItem
        THEN /\ Out(NoItem, with_expected_status(existing, "Idle"),
                    unless(held, "cancelled"))
             /\ UNCHANGED <<downloads, disk>>
        ELSE /\ downloads' = res.downloads
             /\ disk' = IF res.ok THEN save_inner(res.downloads, disk, TRUE)
                        ELSE disk
             /\ Out(NoItem, IF res.ok THEN new(item) ELSE ErrResp("Store"),
                    unless(held, "cancelled"))
  /\ UNCHANGED <<tempFile, finalFile, tasks, call>>

\* DownloadManager::create(ThePath, TheUrl)
create == create_valid(TheUrl)

\* tokio::spawn of downloader::download(&manager, item_started)
spawn(kind, item) ==
  [NoTask EXCEPT !.pc = "begin", !.kind = kind,
                 !.item = with_status(item, "InProgress"),
                 !.original_item = item]

\* The body shared by start and resume: the gate, the spawn, the response.
launch(kind, gate) ==
  /\ call = NoCall
  /\ calls < MaxCalls
  /\ calls' = calls + 1
  /\ LET item == find_by_path(downloads, ThePath)
     IN IF item = NoItem
        THEN /\ Out(NoItem, ErrResp("NotFound"), IF kind = "resume" THEN unless(held, "paused") ELSE held)
             /\ UNCHANGED tasks
        ELSE IF item.status = gate
        THEN /\ FreeTasks # {}
             /\ tasks' = [tasks EXCEPT ![FirstFree] = spawn(kind, item)]
             /\ Out(NoItem, new(with_status(item, "InProgress")),
                    IF kind = "resume" THEN unless(held, "paused") ELSE held)
        ELSE /\ Out(NoItem, with_expected_status(item, "InProgress"),
                    IF kind = "resume" THEN unless(held, "paused") ELSE held)
             /\ UNCHANGED tasks
  /\ UNCHANGED <<downloads, tempFile, finalFile, call>>
  /\ UNCHANGED disk

\* DownloadManager::start
start == launch("start", "Idle")

\* DownloadManager::resume
resume == launch("resume", "Paused")

\* pause without its gate: every status takes the InProgress arm
pause_find_ungated ==
  /\ call = NoCall
  /\ calls < MaxCalls
  /\ calls' = calls + 1
  /\ LET item == find_by_path(downloads, ThePath)
     IN IF item = NoItem
        THEN /\ Out(NoItem, ErrResp("NotFound"), held)
             /\ UNCHANGED call
        ELSE /\ call' = [op |-> "pause", item |-> item]
             /\ Out(NoItem, NoResp, held)
  /\ UNCHANGED <<downloads, tempFile, finalFile, tasks>>
  /\ UNCHANGED disk

\* DownloadManager::pause, up to the match on the status it read
pause_find ==
  /\ call = NoCall
  /\ calls < MaxCalls
  /\ calls' = calls + 1
  /\ LET item == find_by_path(downloads, ThePath)
     IN IF item = NoItem
        THEN /\ Out(NoItem, ErrResp("NotFound"), held)
             /\ UNCHANGED call
        ELSE IF item.status = "InProgress"
        THEN /\ call' = [op |-> "pause", item |-> item]
             /\ Out(NoItem, NoResp, held)
        ELSE /\ Out(NoItem, with_expected_status(item, "Paused"),
                    held)
             /\ UNCHANGED call
  /\ UNCHANGED <<downloads, tempFile, finalFile, tasks>>
  /\ UNCHANGED disk

\* DownloadManager::pause, the InProgress arm: update, emit, return
pause_update ==
  /\ call.op = "pause"
  /\ downloads' = store_update(downloads, with_status(call.item, "Paused"))
  /\ call' = NoCall
  /\ Out(with_status(call.item, "Paused"),
         new(with_status(call.item, "Paused")),
         IF find_by_path(downloads', ThePath).status = "Paused"
         THEN "paused" ELSE held)
  /\ UNCHANGED <<tempFile, finalFile, tasks, calls>>
  /\ disk' = save_inner(downloads', disk, TRUE)

\* cancel answering a missing record with the synthetic Pending record
cancel_find_lenient ==
  /\ call = NoCall
  /\ calls < MaxCalls
  /\ calls' = calls + 1
  /\ LET item == find_by_path(downloads, ThePath)
     IN IF item = NoItem
        THEN /\ Out(NoItem,
                    with_expected_status(DownloadItem("", ThePath, P0, "Pending"),
                                         "Cancelled"),
                    unless(held, "paused"))
             /\ UNCHANGED call
        ELSE IF item.status \in {"Idle", "InProgress", "Paused"}
        THEN /\ call' = [op |-> "cancel_delete", item |-> item]
             /\ Out(NoItem, NoResp, unless(held, "paused"))
        ELSE /\ Out(NoItem, with_expected_status(item, "Cancelled"),
                    unless(held, "paused"))
             /\ UNCHANGED call
  /\ UNCHANGED <<downloads, tempFile, finalFile, tasks>>
  /\ UNCHANGED disk

\* DownloadManager::cancel, up to the match on the status it read
cancel_find ==
  /\ call = NoCall
  /\ calls < MaxCalls
  /\ calls' = calls + 1
  /\ LET item == find_by_path(downloads, ThePath)
     IN IF item = NoItem
        THEN /\ Out(NoItem, ErrResp("NotFound"), unless(held, "paused"))
             /\ UNCHANGED call
        ELSE IF item.status \in {"Idle", "InProgress", "Paused"}
        THEN /\ call' = [op |-> "cancel_delete", item |-> item]
             /\ Out(NoItem, NoResp, unless(held, "paused"))
        ELSE /\ Out(NoItem, with_expected_status(item, "Cancelled"),
                    unless(held, "paused"))
             /\ UNCHANGED call
  /\ UNCHANGED <<downloads, tempFile, finalFile, tasks>>
  /\ UNCHANGED disk

\* DownloadManager::cancel: store.delete
cancel_delete ==
  /\ call.op = "cancel_delete"
  /\ downloads' = store_delete(downloads, call.item.path)
  /\ call' = [call EXCEPT !.op = "cancel_remove"]
  /\ Out(NoItem, NoResp, held)
  /\ UNCHANGED <<tempFile, finalFile, tasks, calls>>
  /\ disk' = save_inner(downloads', disk, TRUE)

\* fs::remove_file of the partial file: the name goes, and the tasks that
\* have the file open keep writing to a file that has no name any more
unlink_temp(ts) ==
  [t \in Tasks |-> IF ts[t].file = "temp" THEN [ts[t] EXCEPT !.file = "orphan"]
                   ELSE ts[t]]

\* DownloadManager::cancel: remove the partial file, emit, return
cancel_remove ==
  /\ call.op = "cancel_remove"
  /\ tempFile' = NoFile
  /\ tasks' = unlink_temp(tasks)
  /\ call' = NoCall
  /\ Out(with_status(call.item, "Cancelled"),
         new(with_status(call.item, "Cancelled")), "cancelled")
  /\ UNCHANGED <<downloads, finalFile, calls>>
  /\ UNCHANGED disk

\* ---------------------------------------------------------------- downloader
SetTask(t, r) == tasks' = [tasks EXCEPT ![t] = r]

\* download: the size of the partial file, the Range header, send()
download_begin(t) ==
  /\ tasks[t].pc = "begin"
  /\ SetTask(t, [tasks[t] EXCEPT
                   !.pc = "await_response",
                   !.downloaded_size = IF tempFile # NoFile THEN tempFile ELSE 0])
  /\ Out(NoItem, NoResp, held)
  /\ UNCHANGED <<downloads, tempFile, finalFile, call, calls>>
  /\ UNCHANGED disk

\* The error returned for a range request that was not answered with 206
RangeRejected == "Http: Server does not support partial downloads"

\* What send() can come back with: a failure, a response with or without a
\* content-length, a response of a server that does not serve ranges.
ResponseOutcomes == {"send_error", "length", "no_length", "no_range"}

\* download: the response arrives; status check, total_size, open the file
download_response(t) ==
  /\ tasks[t].pc = "await_response"
  /\ \E outcome \in ResponseOutcomes :
       LET size == tasks[t].downloaded_size
           partial_content == /\ size > 0
                              /\ outcome \in {"length", "no_length"}
                              /\ size < ResourceSize
           content_length == ResourceSize - size
       IN /\ outcome = "no_range" => size > 0
          /\ IF outcome = "send_error" \/ (size > 0 /\ ~partial_content)
             THEN /\ SetTask(t, [tasks[t] EXCEPT
                       !.pc = "failed",
                       !.result = IF outcome = "send_error"
                                  THEN "Http: Failed to send request"
                                  ELSE RangeRejected])
                  /\ UNCHANGED tempFile
             ELSE /\ SetTask(t, [tasks[t] EXCEPT
                       !.pc = "mark",
                       !.total_size = IF outcome = "length"
                                      THEN content_length + size ELSE 0,
                       !.downloaded = size,
                       !.file = "temp"])
                  /\ tempFile' = IF tempFile = NoFile THEN 0 ELSE tempFile
  /\ Out(NoItem, NoResp, held)
  /\ UNCHANGED <<downloads, finalFile, call, calls>>
  /\ UNCHANGED disk

\* download: store::update(InProgress) and emit_changed before the loop
download_mark(t) ==
  /\ tasks[t].pc = "mark"
  /\ downloads' = store_update(downloads, with_status(tasks[t].item, "InProgress"))
  /\ SetTask(t, [tasks[t] EXCEPT !.pc = "stream"])
  /\ Out(with_status(tasks[t].item, "InProgress"), NoResp,
         held)
  /\ UNCHANGED <<tempFile, finalFile, call, calls>>
  /\ disk' = save_inner(downloads', disk, TRUE)

\* file.write_all through a handle opened in append mode
write_temp(t, len) == IF tasks[t].file = "temp" THEN tempFile + len ELSE tempFile
write_final(t, len) == IF tasks[t].file = "final" THEN finalFile + len ELSE finalFile

\* download: stream.next() yields a chunk: write, count, throttle
download_chunk(t) ==
  /\ tasks[t].pc = "stream"
  /\ tasks[t].downloaded < ResourceSize
  /\ LET len == NextBoundary(tasks[t].downloaded) - tasks[t].downloaded
         downloaded == tasks[t].downloaded + len
         progress == compute_progress(downloaded, tasks[t].total_size)
     IN /\ tempFile' = write_temp(t, len)
        /\ finalFile' = write_final(t, len)
        /\ IF below_threshold(progress, tasks[t].last_emitted_progress)
           THEN SetTask(t, [tasks[t] EXCEPT !.downloaded = downloaded])
           ELSE SetTask(t, [tasks[t] EXCEPT !.downloaded = downloaded,
                                            !.progress = progress,
                                            !.last_emitted_progress = progress,
                                            !.pc = "acted"])
  /\ Out(NoItem, NoResp, held)
  /\ UNCHANGED <<downloads, call, calls>>
  /\ UNCHANGED disk

\* download: stream.next() yields None, the loop ends, Ok(())
download_end(t) ==
  /\ tasks[t].pc = "stream"
  /\ tasks[t].downloaded >= ResourceSize
  /\ SetTask(t, Finished("Ok"))
  /\ Out(NoItem, NoResp, held)
  /\ UNCHANGED <<downloads, tempFile, finalFile, call, calls>>
  /\ UNCHANGED disk

\* download: stream.next() yields Err
download_stream_error(t) ==
  /\ tasks[t].pc = "stream"
  /\ tasks[t].downloaded < ResourceSize
  /\ SetTask(t, [tasks[t] EXCEPT !.pc = "error_delete"])
  /\ Out(NoItem, NoResp, held)
  /\ UNCHANGED <<downloads, tempFile, finalFile, call, calls>>
  /\ UNCHANGED disk

\* download: store::get and the match on the live status
download_get(t) ==
  /\ tasks[t].pc = "acted"
  /\ LET live == find_by_path(downloads, tasks[t].item.path)
         progress == tasks[t].progress
     IN IF live = NoItem \/ live.status = "Paused"
        THEN SetTask(t, Finished("Ok"))
        ELSE IF live.status = "InProgress" /\ PLess(progress, P100)
        THEN SetTask(t, [tasks[t] EXCEPT !.pc = "update", !.live = live])
        ELSE IF live.status = "InProgress" /\ progress = P100
        THEN SetTask(t, [tasks[t] EXCEPT !.pc = "complete_delete", !.live = live])
        ELSE SetTask(t, [tasks[t] EXCEPT !.pc = "stream"])
  /\ Out(NoItem, NoResp, held)
  /\ UNCHANGED <<downloads, tempFile, finalFile, call, calls>>
  /\ UNCHANGED disk

\* download: store::update(with_progress) and emit_changed
download_update(t) ==
  /\ tasks[t].pc = "update"
  /\ downloads' = store_update(downloads,
                               with_progress(tasks[t].live, tasks[t].progress))
  /\ SetTask(t, [tasks[t] EXCEPT !.pc = "stream", !.live = NoItem])
  /\ Out(with_progress(tasks[t].live, tasks[t].progress), NoResp,
         held)
  /\ UNCHANGED <<tempFile, finalFile, call, calls>>
  /\ disk' = save_inner(downloads', disk, TRUE)

\* completion keeping the record in the Store, marked Completed
download_complete_store(t) ==
  /\ tasks[t].pc = "complete_delete"
  /\ downloads' = store_update(downloads, with_status(tasks[t].live, "Completed"))
  /\ SetTask(t, [tasks[t] EXCEPT !.pc = "complete_rename"])
  /\ Out(NoItem, NoResp, held)
  /\ UNCHANGED <<tempFile, finalFile, call, calls>>
  /\ disk' = save_inner(downloads', disk, TRUE)

\* download: completion, store::delete
download_complete_delete(t) ==
  /\ tasks[t].pc = "complete_delete"
  /\ downloads' = store_delete(downloads, tasks[t].live.path)
  /\ SetTask(t, [tasks[t] EXCEPT !.pc = "complete_rename"])
  /\ Out(NoItem, NoResp, held)
  /\ UNCHANGED <<tempFile, finalFile, call, calls>>
  /\ disk' = save_inner(downloads', disk, TRUE)

\* fs::rename of the partial file onto the destination: the open handles
\* follow the file, a file that was at the destination loses its name
rename_temp(ts) ==
  [t \in Tasks |->
     IF ts[t].file = "temp" THEN [ts[t] EXCEPT !.file = "final"]
     ELSE IF ts[t].file = "final" THEN [ts[t] EXCEPT !.file = "orphan"]
     ELSE ts[t]]

\* download: completion, fs::rename and emit_changed(Completed)
download_complete_rename(t) ==
  /\ tasks[t].pc = "complete_rename"
  /\ IF tempFile = NoFile
     THEN /\ SetTask(t, [tasks[t] EXCEPT !.pc = "failed", !.result = "Io",
                                         !.live = NoItem])
          /\ Out(NoItem, NoResp, held)
          /\ UNCHANGED <<tempFile, finalFile>>
     ELSE /\ finalFile' = tempFile
          /\ tempFile' = NoFile
          /\ tasks' = [rename_temp(tasks) EXCEPT
                         ![t].pc = "stream", ![t].live = NoItem]
          /\ Out(with_status(tasks[t].live, "Completed"), NoResp,
                 held)
  /\ UNCHANGED <<downloads, call, calls>>
  /\ UNCHANGED disk

\* download: the Err arm, store::delete
download_error_delete(t) ==
  /\ tasks[t].pc = "error_delete"
  /\ downloads' = store_delete(downloads, tasks[t].item.path)
  /\ SetTask(t, [tasks[t] EXCEPT !.pc = "error_remove"])
  /\ Out(NoItem, NoResp, held)
  /\ UNCHANGED <<tempFile, finalFile, call, calls>>
  /\ disk' = save_inner(downloads', disk, TRUE)

\* the Err arm leaving the partial file where it is
download_error_keep(t) ==
  /\ tasks[t].pc = "error_remove"
  /\ SetTask(t, [tasks[t] EXCEPT !.pc = "failed",
                                  !.result = "Http: Failed to download"])
  /\ Out(NoItem, NoResp, held)
  /\ UNCHANGED <<downloads, disk, tempFile, finalFile, call, calls>>

\* download: the Err arm, remove the partial file if it exists, return Err
download_error_remove(t) ==
  /\ tasks[t].pc = "error_remove"
  /\ tempFile' = NoFile
  /\ tasks' = [unlink_temp(tasks) EXCEPT ![t].pc = "failed",
                                      ![t].result = "Http: Failed to download"]
  /\ Out(NoItem, NoResp, held)
  /\ UNCHANGED <<downloads, finalFile, call, calls>>
  /\ UNCHANGED disk

\* a failure handler that drops the record instead of restoring it
spawn_failed_dropping(t) ==
  /\ tasks[t].pc = "failed"
  /\ downloads' = store_delete(downloads, tasks[t].original_item.path)
  /\ SetTask(t, Finished(tasks[t].result))
  /\ Out(tasks[t].original_item, NoResp, held)
  /\ UNCHANGED <<tempFile, finalFile, call, calls>>
  /\ disk' = save_inner(downloads', disk, TRUE)

\* The closure spawned by start/resume, after download returned Err:
\* store.update(original_item), emit_changed(original_item)
spawn_failed(t) ==
  /\ tasks[t].pc = "failed"
  /\ downloads' = store_update(downloads, tasks[t].original_item)
  /\ SetTask(t, Finished(tasks[t].result))
  /\ Out(tasks[t].original_item, NoResp, held)
  /\ UNCHANGED <<tempFile, finalFile, call, calls>>
  /\ disk' = save_inner(downloads', disk, TRUE)

\* -------------------------------------------------------------- specification
Next ==
  \/ get
  \/ create
  \/ start
  \/ resume
  \/ pause_find
  \/ pause_update
  \/ cancel_find
  \/ cancel_delete
  \/ cancel_remove
  \/ \E t \in Tasks : download_begin(t)
  \/ \E t \in Tasks : download_response(t)
  \/ \E t \in Tasks : download_mark(t)
  \/ \E t \in Tasks : download_chunk(t)
  \/ \E t \in Tasks : download_end(t)
  \/ \E t \in Tasks : download_stream_error(t)
  \/ \E t \in Tasks : download_get(t)
  \/ \E t \in Tasks : download_update(t)
  \/ \E t \in Tasks : download_complete_delete(t)
  \/ \E t \in Tasks : download_complete_rename(t)
  \/ \E t \in Tasks : download_error_delete(t)
  \/ \E t \in Tasks : download_error_remove(t)
  \/ \E t \in Tasks : spawn_failed(t)

Spec == Init /\ [][Next]_vars

\* ------------------------------------------------- the Store and its clients
\* The Store as its clients see it: every operation is one critical section
\* of the Store mutex, so concurrent clients (Manager calls on any thread,
\* Downloader tasks) amount to the operations below taken in any order, with
\* any item.
OtherPath == "/tmp/a.mp4"
Paths == {ThePath, OtherPath}
HalfDone == <<50, 1>>

Items ==
  {DownloadItem(TheUrl, p, pr, st) :
     p \in Paths, pr \in {P0, HalfDone, P100}, st \in DownloadStatus}

\* What a call that returns Ok(()) returns; op is the name of the call.
Returned(op) == Resp(op, NoItem, "None", FALSE)

\* DownloadStore::create called by a client; written: save_inner succeeds
DownloadStore_create(item, written) ==
  /\ LET res == store_create(downloads, item)
     IN /\ downloads' = res.downloads
        /\ disk' = IF res.ok THEN save_inner(res.downloads, disk, written) ELSE disk
        /\ Out(NoItem,
               IF ~res.ok THEN ErrResp("Store")
               ELSE IF written THEN ItemResp(item) ELSE ErrResp(WriteFailed),
               held)
  /\ UNCHANGED <<tempFile, finalFile, tasks, call, calls>>

\* DownloadStore::update called by a client
DownloadStore_update(item, written) ==
  /\ downloads' = store_update(downloads, item)
  /\ disk' = save_inner(downloads', disk, written)
  /\ Out(NoItem, IF written THEN Returned("update") ELSE ErrResp(WriteFailed), held)
  /\ UNCHANGED <<tempFile, finalFile, tasks, call, calls>>

\* DownloadStore::update_no_persist called by a client
DownloadStore_update_no_persist(item) ==
  /\ downloads' = store_update(downloads, item)
  /\ Out(NoItem, Returned("update_no_persist"), held)
  /\ UNCHANGED <<disk, tempFile, finalFile, tasks, call, calls>>

\* DownloadStore::delete called by a client
DownloadStore_delete(path, written) ==
  /\ downloads' = store_delete(downloads, path)
  /\ disk' = save_inner(downloads', disk, written)
  /\ Out(NoItem, IF written THEN Returned("delete") ELSE ErrResp(WriteFailed), held)
  /\ UNCHANGED <<tempFile, finalFile, tasks, call, calls>>

\* DownloadManager::new after a restart: a new Store, loaded from the file
DownloadManager_new ==
  /\ downloads' = store_load(disk)
  /\ Out(NoItem, Returned("new"), held)
  /\ UNCHANGED <<disk, tempFile, finalFile, tasks, call, calls>>

\* DownloadManager::init demoting every interrupted download to Paused
new_status_paused(item) == "Paused"

\* DownloadManager::init: the status an interrupted download is demoted to
new_status(item) == IF item.progress = P0 THEN "Idle" ELSE "Paused"

\* DownloadManager::init: the loop over the items listed, ds being the Store
RECURSIVE init_loop(_, _)
init_loop(ds, items) ==
  IF items = <<>> THEN ds
  ELSE LET item == Head(items)
       IN init_loop(store_update(ds, with_status(item, new_status(item))),
                    Tail(items))

\* DownloadManager::init
init ==
  /\ LET items == SelectSeq(downloads, LAMBDA item : item.status = "InProgress")
     IN /\ downloads' = init_loop(downloads, items)
        /\ disk' = IF items = <<>> THEN disk
                   ELSE save_inner(downloads', disk, TRUE)
  /\ Out(NoItem, Returned("init"), held)
  /\ UNCHANGED <<tempFile, finalFile, tasks, call, calls>>

\* The clients' calls, every write to the file succeeding.
StoreNext ==
  \/ \E item \in Items : DownloadStore_create(item, TRUE)
  \/ \E item \in Items : DownloadStore_update(item, TRUE)
  \/ \E path \in Paths : DownloadStore_delete(path, TRUE)
  \/ init

SpecStore == Init /\ [][StoreNext]_vars

\* The items of the calls below: created, or updated by a download at half
DiskItems ==
  {item \in Items : /\ item.status \in {"Idle", "InProgress"}
                    /\ item.progress \in {P0, HalfDone}}

\* The Store and its file: the clients' calls with writes that succeed or
\* fail, and restarts of the application.
DiskNext ==
  \/ \E item \in DiskItems, written \in BOOLEAN : DownloadStore_create(item, written)
  \/ \E item \in DiskItems, written \in BOOLEAN : DownloadStore_update(item, written)
  \/ \E item \in DiskItems : DownloadStore_update_no_persist(item)
  \/ \E path \in Paths, written \in BOOLEAN : DownloadStore_delete(path, written)
  \/ DownloadManager_new

SpecDisk == Init /\ [][DiskNext]_vars

\* ------------------------------------------------ the arguments of the calls
\* A string argument is the sequence of the pieces it is made of: separators
\* and names for a path; scheme, ":", "//", host, port and path for a url.
RECURSIVE to_string(_)
to_string(pieces) ==
  IF pieces = <<>> THEN "" ELSE Head(pieces) \o to_string(Tail(pieces))

PathInputs ==
  { <<>>,
    <<"/", "tmp", "/", "file.mp4">>,
    <<"/">>,
    <<"file.txt">>,
    <<"relative", "/", "path.txt">>,
    <<"/", "tmp", "/", "..">> }

UrlInputs ==
  { <<>>,
    <<"https", ":", "//", "example.com", "/file.mp4">>,
    <<"http", ":", "//", "example.com", "/file.mp4">>,
    <<"ftp", ":", "//", "example.com", "/file.mp4">>,
    <<"data", ":", "text/plain,hello">>,
    <<"https", ":", "//", "", ":8080", "/file.mp4">>,
    <<"not a valid url">>,
    <<"//", "example.com", "/file.mp4">> }

\* Path::is_absolute (Unix): the path has a root
is_absolute(path) == path # <<>> /\ Head(path) = "/"

\* Path::file_name: the last component when it is a name, NoName when the
\* path has no component or ends in ".."
NoName == ""

file_name(path) ==
  LET components == SelectSeq(path, LAMBDA c : c # "/" /\ c # ".")
  IN IF components = <<>> THEN NoName
     ELSE IF components[Len(components)] = ".." THEN NoName
     ELSE components[Len(components)]

\* validate::path: "Ok" or the message of the Error::Path
validate_path(path) ==
  IF path = <<>> THEN "path cannot be empty"
  ELSE IF ~is_absolute(path) THEN "path must be absolute"
  ELSE IF file_name(path) = NoName THEN "path must have a filename"
  ELSE "Ok"

\* url::Url::parse on the inputs above: no scheme is a relative url without
\* a base, an http(s)/ftp url needs a host, a url without "//" has no host
NoHost == ""

parse(url) ==
  IF Len(url) < 2 \/ url[2] # ":"
  THEN [ok |-> FALSE, scheme |-> "", host |-> NoHost]
  ELSE IF Len(url) >= 4 /\ url[3] = "//"
  THEN IF url[4] = "" /\ url[1] \in {"http", "https", "ftp"}
       THEN [ok |-> FALSE, scheme |-> url[1], host |-> NoHost]
       ELSE [ok |-> TRUE, scheme |-> url[1], host |-> url[4]]
  ELSE [ok |-> TRUE, scheme |-> url[1], host |-> NoHost]

\* validate::url: "Ok" or the message of the Error::Url
validate_url(url) ==
  IF url = <<>> THEN "URL cannot be empty"
  ELSE LET parsed == parse(url)
       IN IF ~parsed.ok THEN "Invalid URL"
          ELSE IF parsed.scheme \notin {"http", "https"} THEN "Invalid URL scheme"
          ELSE IF parsed.host = NoHost THEN "URL must have a host"
          ELSE "Ok"

\* A Manager call that returns the error of a failed validation
rejected(error) ==
  /\ call = NoCall
  /\ calls < MaxCalls
  /\ calls' = calls + 1
  /\ Out(NoItem, ErrResp(error), held)
  /\ UNCHANGED <<downloads, tempFile, finalFile, tasks, call>>
  /\ UNCHANGED disk

\* The Manager calls with their arguments; the calls that pass validation
\* are followed for the path ThePath.
get_call(path) ==
  IF validate_path(path) # "Ok" THEN rejected("Path")
  ELSE to_string(path) = ThePath /\ get

\* create storing the record before it validates the url
create_call_late(path, url) ==
  IF validate_path(path) # "Ok" THEN rejected("Path")
  ELSE /\ to_string(path) = ThePath
       /\ IF validate_url(url) # "Ok"
          THEN /\ call = NoCall
               /\ calls < MaxCalls
               /\ calls' = calls + 1
               /\ downloads' = store_create(downloads,
                     DownloadItem(to_string(url), ThePath, P0, "Idle")).downloads
               /\ disk' = save_inner(downloads', disk, TRUE)
               /\ Out(NoItem, ErrResp("Url"), held)
               /\ UNCHANGED <<tempFile, finalFile, tasks, call>>
          ELSE create_valid(to_string(url))

create_call(path, url) ==
  IF validate_path(path) # "Ok" THEN rejected("Path")
  ELSE IF validate_url(url) # "Ok" THEN rejected("Url")
  ELSE to_string(path) = ThePath /\ create_valid(to_string(url))

start_call(path) ==
  IF validate_path(path) # "Ok" THEN rejected("Path")
  ELSE to_string(path) = ThePath /\ start

resume_call(path) ==
  IF validate_path(path) # "Ok" THEN rejected("Path")
  ELSE to_string(path) = ThePath /\ resume

pause_call(path) ==
  IF validate_path(path) # "Ok" THEN rejected("Path")
  ELSE to_string(path) = ThePath /\ pause_find

cancel_call(path) ==
  IF validate_path(path) # "Ok" THEN rejected("Path")
  ELSE to_string(path) = ThePath /\ cancel_find

\* The task spawned first
FirstTask == CHOOSE t \in Tasks : \A u \in Tasks : t <= u

\* The calls with any arguments, next to the Downloader task spawned first.
ArgsNext ==
  \/ \E path \in PathInputs : get_call(path)
  \/ \E path \in PathInputs, url \in UrlInputs : create_call(path, url)
  \/ \E path \in PathInputs : start_call(path)
  \/ \E path \in PathInputs : resume_call(path)
  \/ \E path \in PathInputs : pause_call(path)
  \/ \E path \in PathInputs : cancel_call(path)
  \/ pause_update
  \/ cancel_delete
  \/ cancel_remove
  \/ download_begin(FirstTask)
  \/ download_response(FirstTask)
  \/ download_mark(FirstTask)
  \/ download_chunk(FirstTask)
  \/ download_end(FirstTask)
  \/ download_stream_error(FirstTask)
  \/ download_get(FirstTask)
  \/ download_update(FirstTask)
  \/ download_complete_delete(FirstTask)
  \/ download_complete_rename(FirstTask)
  \/ download_error_delete(FirstTask)
  \/ download_error_remove(FirstTask)
  \/ spawn_failed(FirstTask)

SpecArgs == Init /\ [][ArgsNext]_vars

\* -------------------------------------------------------------------- claims
Record == find_by_path(downloads, ThePath)

AllTerminated == \A t \in Tasks : tasks[t].pc \in {"unused", "done"}

\* A task in its streaming loop, its handle on the partial file, body not
\* yet fully received: its next chunk is appended to the partial file.
Streaming(t) ==
  /\ tasks[t].pc \in {"stream", "acted", "update"}
  /\ tasks[t].file = "temp"
  /\ tasks[t].downloaded < ResourceSize

\* C1: in every reachable state at most one Downloader task is actively
\* streaming to the partial file of the path.
C1_OneWriter == Cardinality({t \in Tasks : Streaming(t)}) <= 1

\* C2: when start (on Idle) or resume (on Paused) returns its effective
\* response, the record in the Store has status InProgress.
C2_PersistedOnReturn ==
  (/\ response.kind = "action"
   /\ response.expected_status = "InProgress"
   /\ response.is_expected_status)
  => Record.status = "InProgress"

Spawned == {t \in Tasks : tasks[t].pc # "unused"}

\* C3: after a pause that took effect, and until resume or cancel is called,
\* no step of the one running Downloader changes the record of the path back
\* to InProgress.
C3_PausedStays ==
  (held = "paused" /\ Cardinality(Spawned) = 1) => Record.status # "InProgress"

\* C4: when the failure handler of a spawned task has run (no cancel having
\* removed the record), the Store holds the record as it was before
\* start/resume, and the handler has emitted it.
C4_Rollback ==
  [][\A t \in Tasks :
       (spawn_failed(t) /\ call = NoCall /\ held # "cancelled") =>
         /\ find_by_path(downloads', ThePath) = tasks[t].original_item
         /\ emitted' = tasks[t].original_item]_vars

\* C5: after a cancel that took effect, and until create is called, the Store
\* has no record for the path, get returns the Pending record, and once all
\* the tasks have terminated the partial file does not exist.
C5_CancelRemoves ==
  held = "cancelled" =>
    /\ Record = NoItem
    /\ response.kind = "item" => response.download.status = "Pending"
    /\ AllTerminated => tempFile = NoFile

\* A step of a Downloader task other than the handling of a stream error.
DownloaderStep ==
  \E t \in Tasks :
    \/ download_begin(t) \/ download_response(t) \/ download_mark(t)
    \/ download_chunk(t) \/ download_end(t) \/ download_get(t)
    \/ download_update(t) \/ download_complete_delete(t)
    \/ download_complete_rename(t)

\* C6: after a pause that took effect, and until resume or cancel is called,
\* no step of the one running Downloader changes the Store or removes the
\* partial file.
C6_PauseFreezes ==
  [][(held = "paused" /\ Cardinality(Spawned) = 1 /\ DownloaderStep) =>
       /\ downloads' = downloads
       /\ tempFile # NoFile => tempFile' # NoFile]_vars

\* C7: after create and start and nothing else, when the task has received
\* the whole body and returned Ok, Completed has been emitted (the partial
\* file has been renamed to the destination) and the record is gone.
C7_Completes ==
  (/\ calls = 2
   /\ tasks[1].pc = "done"
   /\ tasks[1].result = "Ok")
  => /\ finalFile # NoFile
     /\ Record = NoItem

\* C8: a Downloader that read InProgress for a sample of 100 deletes the
\* record, renames the partial file to the destination and emits Completed.
C8_Completion ==
  [][\A t \in Tasks :
       /\ download_complete_delete(t) => find_by_path(downloads', ThePath) = NoItem
       /\ download_complete_rename(t) =>
            /\ tempFile' = NoFile
            /\ finalFile' # NoFile
            /\ emitted'.status = "Completed"
            /\ downloads' = downloads]_vars

\* C9: the stored progress does not decrease from a state where the record
\* is InProgress to the next one, and Completed is emitted with progress 100.
C9_Monotonic ==
  [][/\ (/\ Record.status = "InProgress"
         /\ find_by_path(downloads', ThePath).status = "InProgress")
        => PLeq(Record.progress, find_by_path(downloads', ThePath).progress)
     /\ emitted'.status = "Completed" => emitted'.progress = P100]_vars

\* C10 (as stated): a call that returns a response without having changed
\* anything returns is_expected_status = FALSE.
C10_FalseWhenNoOp ==
  [][(/\ call = NoCall
      /\ response'.kind = "action"
      /\ downloads' = downloads
      /\ tasks' = tasks)
     => ~response'.is_expected_status]_vars

\* C10 (amended): is_expected_status is TRUE exactly when the record in the
\* response has the expected status of the operation.
C10_FlagIsStatusMatch ==
  response.kind = "action" =>
    (response.is_expected_status
       <=> response.download.status = response.expected_status)

\* start or resume on a record that is already InProgress: nothing changes
\* and the flag is TRUE.
C10_Witness ==
  /\ response.kind = "action"
  /\ response.expected_status = "InProgress"
  /\ response.is_expected_status
  /\ Record.status = "InProgress"

\* A record exists for the path and its status is not the one the gate asks
GateMiss(gate) == Record # NoItem /\ Record.status # gate

\* The step changes nothing, notifies nobody and returns the current record
\* with the expected status
NoOpReturn(expected_status) ==
  /\ downloads' = downloads
  /\ tempFile' = tempFile
  /\ finalFile' = finalFile
  /\ tasks' = tasks
  /\ emitted' = NoItem
  /\ response'.kind = "action"
  /\ response'.download = Record
  /\ response'.expected_status = expected_status

\* C11: start on a record that is not Idle, resume on a record that is not
\* Paused and pause on a record that is not InProgress leave the Store, the
\* files and the tasks unchanged, emit no notification and return the
\* current record with the expected status of the operation.
C11_NoOpFrame ==
  [][/\ (start /\ GateMiss("Idle")) => NoOpReturn("InProgress")
     /\ (resume /\ GateMiss("Paused")) => NoOpReturn("InProgress")
     /\ (pause_find /\ GateMiss("InProgress")) => NoOpReturn("Paused")]_vars

\* pause on an Idle record has returned it, with expected status Paused
C11_Witness ==
  /\ response.kind = "action"
  /\ response.expected_status = "Paused"
  /\ ~response.is_expected_status
  /\ response.download = Record
  /\ Record.status = "Idle"
  /\ emitted = NoItem

\* C12 (as stated): start, resume, pause and cancel never return an error,
\* also when no record exists for the path.
C12_NeverAnError == response.kind \in {"none", "item", "action"}

\* C12 (amended): start, resume, pause and cancel return the NotFound error,
\* changing nothing, exactly when no record exists for the path; when one
\* exists they return a structured result.
C12_NotFoundOrResult ==
  [][/\ (start \/ resume \/ pause_find \/ cancel_find) =>
          IF Record = NoItem
          THEN /\ response' = ErrResp("NotFound")
               /\ emitted' = NoItem
               /\ UNCHANGED <<downloads, tempFile, finalFile, tasks, call>>
          ELSE response'.kind \in {"action", "none"}
     /\ (pause_update \/ cancel_remove) => response'.kind = "action"]_vars

\* a call on a path without a record has returned NotFound
C12_Witness ==
  /\ response = ErrResp("NotFound")
  /\ Record = NoItem
  /\ call = NoCall
  /\ calls >= 1

\* C13: a Manager call that returns having persisted a change to the record
\* has invoked the observer callback with the record as persisted.
C13_NotifiedOnChange ==
  [][(response' # NoResp /\ downloads' # downloads)
       => emitted' = find_by_path(downloads', ThePath)]_vars

\* C14: after a cancel has emitted Cancelled, and until create is called, no
\* notification is emitted for the path.
C14_CancelledIsLast ==
  [][(held = "cancelled" /\ held' = "cancelled") => emitted' = NoItem]_vars

\* C15: a task spawned by resume whose range request is not answered with
\* partial content fails with the Http error without touching the Store or
\* the partial file; when its failure handler runs on a path that has a
\* record, the Store then holds the Paused record that resume read, and the
\* handler emits it.
C15_RangeRejected ==
  [][\A t \in Tasks :
       /\ (/\ download_response(t)
           /\ tasks[t].kind = "resume"
           /\ tasks'[t].result = RangeRejected)
          => /\ tasks[t].downloaded_size > 0
             /\ tasks'[t].pc = "failed"
             /\ tasks'[t].file = "none"
             /\ UNCHANGED <<downloads, tempFile, finalFile>>
       /\ (/\ spawn_failed(t)
           /\ tasks[t].kind = "resume"
           /\ tasks[t].result = RangeRejected
           /\ Record # NoItem)
          => /\ find_by_path(downloads', ThePath) = tasks[t].original_item
             /\ tasks[t].original_item.status = "Paused"
             /\ emitted' = tasks[t].original_item
             /\ UNCHANGED <<tempFile, finalFile>>]_vars

\* the handler of a rejected resume has run: Paused record, partial file kept
C15_Witness ==
  \E t \in Tasks :
    /\ tasks[t].pc = "done"
    /\ tasks[t].result = RangeRejected
    /\ response = NoResp
    /\ emitted.status = "Paused"
    /\ emitted.progress # P0
    /\ Record = emitted
    /\ tempFile > 0

\* C16: every record in the Store has status Idle, InProgress or Paused.
C16_StoredStatuses ==
  \A i \in DOMAIN downloads : downloads[i].status \in {"Idle", "InProgress", "Paused"}

\* a download has completed: Completed was emitted and nothing is stored
C16_Witness ==
  /\ emitted.status = "Completed"
  /\ downloads = <<>>
  /\ finalFile = ResourceSize

\* No two records of the Store have the same path.
UniquePaths ==
  \A i, j \in DOMAIN downloads : downloads[i].path = downloads[j].path => i = j

\* C17: the Store holds at most one record per path whatever create, update
\* and delete calls its clients make and in whatever order; a create for a
\* path that has a record returns a Store error and leaves the records
\* unchanged.
C17_OneRecordPerPath ==
  /\ []UniquePaths
  /\ [][\A item \in Items :
          (DownloadStore_create(item, TRUE) /\ find_by_path(downloads, item.path) # NoItem)
            => /\ response' = ErrResp("Store")
               /\ downloads' = downloads]_vars

\* a create for a path that has a record has been refused
C17_Witness ==
  /\ response = ErrResp("Store")
  /\ Len(downloads) = Cardinality(Paths)
  /\ UniquePaths

\* C18: when init returns no record is InProgress: the records that were
\* InProgress with progress 0 are Idle, those that were InProgress with a
\* progress above 0 are Paused with the same progress, the others are as
\* they were.
C18_InitDemotes ==
  [][init =>
       /\ DOMAIN downloads' = DOMAIN downloads
       /\ \A i \in DOMAIN downloads :
            LET before == downloads[i]
                after == downloads'[i]
            IN /\ after.status # "InProgress"
               /\ IF before.status # "InProgress" THEN after = before
                  ELSE IF before.progress = P0
                  THEN after = [before EXCEPT !.status = "Idle"]
                  ELSE after = [before EXCEPT !.status = "Paused"]]_vars

\* init has returned leaving a Paused record that keeps its progress and an
\* Idle record at progress 0
C18_Witness ==
  /\ response = Returned("init")
  /\ \E i, j \in DOMAIN downloads :
       /\ downloads[i].status = "Paused" /\ downloads[i].progress = HalfDone
       /\ downloads[j].status = "Idle" /\ downloads[j].progress = P0

\* C19: a create with valid arguments returns a response with expected status
\* Idle, never an error, and leaves exactly one record for the path; when
\* the path already had a record, the Store is unchanged and the response
\* carries that record, whatever url the call was given.
C19_CreateIdempotent ==
  [][\A path \in PathInputs, url \in UrlInputs :
       (/\ create_call(path, url)
        /\ validate_path(path) = "Ok"
        /\ validate_url(url) = "Ok")
       => /\ response'.kind = "action"
          /\ response'.expected_status = "Idle"
          /\ Cardinality({i \in DOMAIN downloads' : downloads'[i].path = ThePath}) = 1
          /\ Record # NoItem =>
               /\ downloads' = downloads
               /\ response'.download = Record]_vars

\* create has returned the record of a running download as it is stored
C19_Witness ==
  /\ response.kind = "action"
  /\ response.expected_status = "Idle"
  /\ ~response.is_expected_status
  /\ response.download = Record
  /\ Record.status = "InProgress"
  /\ Record.progress # P0
  /\ Len(downloads) = 1

\* Paths that are empty, relative or without a file name
BadPaths ==
  { <<>>,
    <<"file.txt">>,
    <<"relative", "/", "path.txt">>,
    <<"/">>,
    <<"/", "tmp", "/", "..">> }

\* Urls that are empty, not http(s), without a host or not urls at all
BadUrls ==
  { <<>>,
    <<"ftp", ":", "//", "example.com", "/file.mp4">>,
    <<"data", ":", "text/plain,hello">>,
    <<"https", ":", "//", "", ":8080", "/file.mp4">>,
    <<"not a valid url">>,
    <<"//", "example.com", "/file.mp4">> }

\* The step changes neither the Store, the files nor the tasks, and emits
\* no notification
Untouched ==
  /\ UNCHANGED <<downloads, tempFile, finalFile, tasks, call>>
  /\ emitted' = NoItem

\* C20: get, create, start, resume, pause and cancel called with an empty,
\* relative or filename-less path return a Path error, create called with a
\* valid path and an empty, non-http(s), hostless or unparsable url returns a
\* Url error; in both cases the Store, the files and the tasks are unchanged
\* and no notification is emitted.
C20_ValidationFirst ==
  [][/\ \A path \in BadPaths :
          /\ validate_path(path) # "Ok"
          /\ (\/ get_call(path) \/ start_call(path) \/ resume_call(path)
              \/ pause_call(path) \/ cancel_call(path)
              \/ \E url \in UrlInputs : create_call(path, url))
             => (response' = ErrResp("Path") /\ Untouched)
     /\ \A url \in BadUrls :
          /\ validate_url(url) # "Ok"
          /\ \A path \in PathInputs \ BadPaths :
               create_call(path, url) => (response' = ErrResp("Url") /\ Untouched)]_vars

\* a call with a bad path has been refused while a download was running
C20_Witness ==
  /\ response = ErrResp("Path")
  /\ Record.status = "InProgress"
  /\ tasks[FirstTask].pc = "stream"
  /\ tempFile > 0
  /\ emitted = NoItem

\* C21: the records held in memory are those a new Store would load from
\* the backing file.
C21_MemoryIsDisk == store_load(disk) = downloads

\* C22: an update for a path that has no record returns Ok, leaves the
\* records unchanged and writes them to the file; so does a delete for a
\* path that has no record.
C22_UnknownPathNoOp ==
  [][/\ \A item \in Items :
          (DownloadStore_update(item, TRUE) /\ find_by_path(downloads, item.path) = NoItem)
            => /\ response' = Returned("update")
               /\ downloads' = downloads
               /\ disk' = save_inner(downloads, disk, TRUE)
     /\ \A path \in Paths :
          (DownloadStore_delete(path, TRUE) /\ find_by_path(downloads, path) = NoItem)
            => /\ response' = Returned("delete")
               /\ downloads' = downloads
               /\ disk' = save_inner(downloads, disk, TRUE)]_vars

\* an update on the empty Store has returned Ok: nothing inserted, file written
C22_Witness ==
  /\ response = Returned("update")
  /\ downloads = <<>>
  /\ disk.exists
  /\ disk.data = <<>>

\* A create, update or delete that has returned Ok
StoreCallOk ==
  \/ \E item \in DiskItems : DownloadStore_create(item, TRUE) /\ response' = ItemResp(item)
  \/ \E item \in DiskItems : DownloadStore_update(item, TRUE)
  \/ \E path \in Paths : DownloadStore_delete(path, TRUE)

C24_NoRefetch ==
  (\E t \in Tasks : tasks[t].kind = "resume")
    => (tempFile <= ResourceSize /\ finalFile <= ResourceSize)

\* C25: the Downloader acts on the sample of a chunk exactly when the sample
\* is at least PROGRESS_THRESHOLD above the last sample acted on, or is 100.
C25_Throttle ==
  [][\A t \in Tasks :
       download_chunk(t) =>
         LET sample == compute_progress(tasks'[t].downloaded, tasks[t].total_size)
             last == tasks[t].last_emitted_progress
         IN (tasks'[t].pc = "acted")
              <=> \/ sample = P100
                  \/ /\ PLeq(last, sample)
                     /\ PLeq(PROGRESS_THRESHOLD, PSub(sample, last))]_vars

\* C26: a Downloader that acts on a sample while the record of its path is
\* missing or has a status other than InProgress and Paused terminates.
C26_StopsOnOtherStatus ==
  [][\A t \in Tasks :
       (download_get(t) /\ Record.status \notin {"InProgress", "Paused"})
         => tasks'[t].pc = "done"]_vars

C28_MarkedBeforeFirstByte ==
  [][\A t \in Tasks :
       (download_mark(t) /\ tasks'[t].pc = "stream")
         => /\ find_by_path(downloads', ThePath).status = "InProgress"
            /\ find_by_path(store_load(disk'), ThePath).status = "InProgress"]_vars

\* progress lies in [0, 100], and is 100 exactly for status Completed
ProgressOK(item) ==
  /\ PLeq(P0, item.progress)
  /\ PLeq(item.progress, P100)
  /\ item.progress = P100 <=> item.status = "Completed"

\* C29: every record in the Store and every record handed to the observer
\* has its progress in [0, 100], equal to 100 exactly when its status is
\* Completed; with_status(Completed) sets the progress to 100 and with_status
\* of another status keeps it.
C29_ProgressAndStatus ==
  /\ \A i \in DOMAIN downloads : ProgressOK(downloads[i])
  /\ emitted # NoItem => ProgressOK(emitted)
  /\ \A item \in Items, status \in DownloadStatus :
       with_status(item, status).progress =
         IF status = "Completed" THEN P100 ELSE item.progress

\* a Downloader has completed the download: the observer receives the record
\* as Completed at 100, the whole resource is in the final file and the Store
\* holds no record of the path
C29_Witness ==
  /\ emitted.status = "Completed"
  /\ emitted.progress = P100
  /\ finalFile = ResourceSize
  /\ Record = NoItem

\* C30: after create and start and nothing else, once no task is running the
\* record is not InProgress in the Store.
C30_NotLeftInProgress ==
  (calls = 2 /\ AllTerminated) => Record.status # "InProgress"

\* C31: in one lifecycle of the path at most one terminal notification is
\* emitted: a Downloader does not finalise the file and emit Completed while
\* a cancel call that has read the record is on its way to emit Cancelled,
\* and in a session of create, start and cancel alone the cancel call does
\* not return Cancelled when the file is finalised at the destination.
C31_OneTerminal ==
  [][/\ \A t \in Tasks :
          (download_complete_rename(t) /\ emitted'.status = "Completed")
            => call.op \notin {"cancel_delete", "cancel_remove"}
     /\ (cancel_remove /\ calls <= 3) => finalFile = NoFile]_vars

\* C32: every chunk a Downloader appends to the partial file lands at the
\* offset of the resource it was fetched from, and the partial file never
\* holds more bytes than the resource.
C32_PartialIsPrefix ==
  [][\A t \in Tasks :
       (download_chunk(t) /\ tasks[t].file = "temp")
         => /\ tempFile = tasks[t].downloaded
            /\ tempFile' <= ResourceSize]_vars

====
